---- MODULE Spec2Model ----
(***************************************************************************)
(* owlbot.py: one synchronization call (node.owlbot_main with two exclude  *)
(* lists) followed by two regular-expression substitutions on the file     *)
(* .trampolinerc.  File contents are sequences of one-character strings,   *)
(* so that the substitutions work on text the way re.sub does.             *)
(***************************************************************************)
EXTENDS Integers, Sequences, FiniteSets, TLC

\* ------------------------------------------------------------------ bounds

\* Longest .trampolinerc content initially on disk, in chunks (see Chunks).
MaxChunks == 3
\* Number of times the script is executed in one behaviour.
MaxRuns == 2

\* ------------------------------------------------------- literals of the code

\* staging_excludes without README.md.
staging_excludes_short ==
    {".eslintignore", ".prettierignore", "src/index.ts",
     "package.json", "system-test/fixtures/sample/src/index.js",
     "system-test/fixtures/sample/src/index.ts"}

\* owlbot.py:21-24
staging_excludes ==
    {".eslintignore", ".prettierignore", "src/index.ts", "README.md",
     "package.json", "system-test/fixtures/sample/src/index.js",
     "system-test/fixtures/sample/src/index.ts"}

\* templates_excludes with .trampolinerc added: the template's .trampolinerc
\* would then never replace the patched one.
templates_excludes_plus ==
    {"src/index.ts", ".eslintignore", ".prettierignore", "CONTRIBUTING.md",
     ".github/auto-label.yaml", ".trampolinerc"}

\* templates_excludes without its last two entries.
templates_excludes_short ==
    {"src/index.ts", ".eslintignore", ".prettierignore"}

\* owlbot.py:25-31
templates_excludes ==
    {"src/index.ts", ".eslintignore", ".prettierignore", "CONTRIBUTING.md",
     ".github/auto-label.yaml"}

\* owlbot.py:36, the file the first s.replace names
Target1 == ".trampolinerc"

\* The second s.replace naming another file.
Target2Other == "README.md"

\* owlbot.py:41, the file the second s.replace names
Target2 == ".trampolinerc"

\* The text  required_envvars
LitRequired ==
    <<"r","e","q","u","i","r","e","d","_","e","n","v","v","a","r","s">>

\* The text  pass_down_envvars
LitPassDown ==
    <<"p","a","s","s","_","d","o","w","n","_","e","n","v","v","a","r","s">>

\* owlbot.py:37: the literal the first pattern starts with
Pattern1Lit == LitRequired

\* owlbot.py:37: the character of the class [^\)] and of the closing \)
Pattern1Close == ")"

\* A replacement with a stray closing parenthesis: required_envvars+=())
Replacement1Stray == LitRequired \o <<"+","=","(",")",")">>

\* owlbot.py:38: required_envvars+=()
Replacement1 == LitRequired \o <<"+","=","(",")">>

\* owlbot.py:42: pass_down_envvars\+\=\(  is the literal pass_down_envvars+=(
Pattern2Lit == LitPassDown \o <<"+","=","(">>

\* The line  \n    "ENVIRONMENT"
EntryEnvironment ==
    <<"\n"," "," "," "," ","\"","E","N","V","I","R","O","N","M","E","N","T","\"">>

\* The line  \n    "RUNTIME"
EntryRuntime ==
    <<"\n"," "," "," "," ","\"","R","U","N","T","I","M","E","\"">>

\* A replacement that lists the two entries in the other order.
Replacement2Swapped ==
    Pattern2Lit \o EntryRuntime \o EntryEnvironment

\* owlbot.py:43: 'pass_down_envvars+=(\n    "ENVIRONMENT"\n    "RUNTIME"'
Replacement2 ==
    Pattern2Lit \o EntryEnvironment \o EntryRuntime

\* -------------------------------------------------------- pattern matching

\* Whether the literal lit stands in s at position i.
HasLit(s, i, lit) ==
    /\ i >= 1
    /\ i + Len(lit) - 1 <= Len(s)
    /\ SubSeq(s, i, i + Len(lit) - 1) = lit

\* The least position of s from k on that holds one of the characters stop,
\* Len(s)+1 when there is none.
FirstOf(s, k, stop) ==
    LET at == {m \in k..Len(s) : s[m] \in stop}
    IN  IF at = {} THEN Len(s) + 1
        ELSE CHOOSE m \in at : \A m2 \in at : m <= m2

\* [^\)\n]*: a class that a line break ends too.
SkipClass1Line(s, k) == FirstOf(s, k, {Pattern1Close, "\n"})

\* owlbot.py:37, [^\)]* (greedy): the first position at or after k that the
\* class does not take, Len(s)+1 when it takes the rest of s.  A negated
\* class takes line breaks.
SkipClass1(s, k) == FirstOf(s, k, {Pattern1Close})

\* owlbot.py:37, required_envvars[^\)]*\) tried at position i: the position
\* of the match's last character, 0 when the pattern does not match at i.
\* Every character the class took is not ')', so backing off never helps.
MatchEnd1(s, i) ==
    IF ~HasLit(s, i, Pattern1Lit) THEN 0
    ELSE LET k == SkipClass1(s, i + Len(Pattern1Lit))
         IN  IF k <= Len(s) /\ s[k] = Pattern1Close THEN k ELSE 0

\* owlbot.py:42, pass_down_envvars\+\=\( tried at position i.
MatchEnd2(s, i) ==
    IF HasLit(s, i, Pattern2Lit) THEN i + Len(Pattern2Lit) - 1 ELSE 0

\* The pattern of patch rule r tried at position i of s.
MatchEnd(r, s, i) ==
    IF r = 1 THEN MatchEnd1(s, i) ELSE MatchEnd2(s, i)

\* The replacement text of patch rule r.
Replacement(r) ==
    IF r = 1 THEN Replacement1 ELSE Replacement2

\* The first position of s from i on where rule r's pattern matches, 0 when
\* it matches nowhere: the scan tries each position in turn.
NextMatch(r, s, i) ==
    LET at == {m \in i..Len(s) : MatchEnd(r, s, m) > 0}
    IN  IF at = {} THEN 0
        ELSE CHOOSE m \in at : \A m2 \in at : m <= m2

\* re.sub from position i on: scan left to right, copy the text up to the
\* next match, put the replacement for the match and go on after the match;
\* copy the rest when nothing matches any more.  No pattern here matches the
\* empty text, and no replacement holds a backslash or a group reference.
RECURSIVE ReSub(_, _, _)
ReSub(r, s, i) ==
    LET m == NextMatch(r, s, i)
    IN  IF m = 0 THEN SubSeq(s, i, Len(s))
        ELSE SubSeq(s, i, m - 1) \o Replacement(r)
                 \o ReSub(r, s, MatchEnd(r, s, m) + 1)

\* re.sub with count=1: only the first match is replaced.
ReSubFirst(r, s, i) ==
    LET m == NextMatch(r, s, i)
    IN  IF m = 0 THEN SubSeq(s, i, Len(s))
        ELSE SubSeq(s, i, m - 1) \o Replacement(r)
                 \o SubSeq(s, MatchEnd(r, s, m) + 1, Len(s))

\* s.replace that stops after the first match.
ReplacedFirst(r, s) == ReSubFirst(r, s, 1)

\* owlbot.py:35-39 and 40-44: the new content s.replace writes for rule r.
Replaced(r, s) == ReSub(r, s, 1)

\* ------------------------------------------------------------ the work tree

\* The paths followed: every path of the two exclude lists, .trampolinerc,
\* and one generated source file that neither list names.
Paths ==
    {".eslintignore", ".prettierignore", "src/index.ts", "README.md",
     "package.json", "system-test/fixtures/sample/src/index.js",
     "system-test/fixtures/sample/src/index.ts", "CONTRIBUTING.md",
     ".github/auto-label.yaml", ".trampolinerc", "src/v2/index.ts"}

\* Content of a file other than .trampolinerc as it is before the first run,
\* as the staging directory holds it, and as the templates render it.  Each
\* holds text the second pattern matches, so that a substitution made in the
\* wrong file changes it.
OrigText == <<"O">> \o Pattern2Lit \o <<")">>
StagedText == <<"S">> \o Pattern2Lit \o <<")">>
TemplateText == <<"T">> \o Pattern2Lit \o <<")">>

\* Pieces the initial .trampolinerc is put together from.
Chunks ==
    {LitRequired, Pattern2Lit, <<")">>, <<"\n">>, <<"X">>}

\* Every text of at most n chunks.
RECURSIVE ChunkTexts(_)
ChunkTexts(n) ==
    IF n = 0 THEN {<<>>}
    ELSE LET prev == ChunkTexts(n - 1)
         IN  prev \cup {t \o c : t \in prev, c \in Chunks}

InitialTexts == ChunkTexts(MaxChunks)

\* What the templates may render for .trampolinerc: the two declarations over
\* several lines as the toolkit's template has them, a list written on one
\* line, and a file with neither declaration.
TemplateTexts ==
    { LitRequired \o <<"+","=","(","\n","X","\n",")","\n">>
        \o Pattern2Lit \o <<"\n","X","\n",")","\n">>,
      Pattern2Lit \o <<"X",")">>,
      <<"X","\n">> }

\* The (staging, templates) path sets a behaviour may have upstream.
Upstreams ==
    { <<Paths, Paths>>,
      <<Paths, {}>>,
      <<{}, Paths>>,
      <<Paths \ {".trampolinerc"}, Paths \ {".trampolinerc"}>>,
      <<{}, {}>> }

VARIABLES
    pc,         \* the statement the script is at, or how it ended
    tree,       \* content of every path of the working tree
    present,    \* the paths that exist
    staging,    \* the paths the staging directory holds
    templates,  \* the paths the templates render
    tpl,        \* what the templates render for .trampolinerc
    run,        \* how many times the script has been started
    trace,      \* the steps the current run completed, with the tree after each
    finals      \* .trampolinerc after each earlier run that reached the end

vars == <<pc, tree, present, staging, templates, tpl, run, trace, finals>>

Snapshot(step, t, p) == [step |-> step, tree |-> t, present |-> p]

\* The steps the current run completed, in order.
Steps == [k \in 1..(Len(trace) - 1) |-> trace[k + 1].step]

\* owlbot.py:20-44 in the other order: the second s.replace before the first.
NextStepSwapped(p) ==
    CASE p = "sync" -> "patch2"
      [] p = "patch2" -> "patch1"
      [] p = "patch1" -> "done"

\* owlbot.py:20-44: three statements, one after the other.
NextStep(p) ==
    CASE p = "sync" -> "patch1"
      [] p = "patch1" -> "patch2"
      [] p = "patch2" -> "done"

\* Copying the staging directory: every staged path that staging_excludes does
\* not name gets the staged content.
AfterStaging(t) ==
    [p \in Paths |-> IF p \in staging \ staging_excludes THEN StagedText ELSE t[p]]

\* Copying the rendered templates: every rendered path that templates_excludes
\* does not name gets the template's content.
AfterTemplates(t) ==
    [p \in Paths |->
        IF p \in templates \ templates_excludes
        THEN (IF p = ".trampolinerc" THEN tpl ELSE TemplateText)
        ELSE t[p]]

Init ==
    /\ pc = "sync"
    /\ \E c \in InitialTexts :
          tree = [p \in Paths |-> IF p = ".trampolinerc" THEN c ELSE OrigText]
    /\ present \in {Paths, Paths \ {".trampolinerc"}}
    /\ (".trampolinerc" \notin present => tree[".trampolinerc"] = <<>>)
    /\ \E u \in Upstreams : staging = u[1] /\ templates = u[2]
    /\ tpl \in TemplateTexts
    /\ (".trampolinerc" \notin templates => tpl = <<"X","\n">>)
    /\ run = 1
    /\ trace = <<Snapshot("start", tree, present)>>
    /\ finals = <<>>

\* owlbot.py:20-32: node.owlbot_main returns.
Sync ==
    /\ pc = "sync"
    /\ tree' = AfterTemplates(AfterStaging(tree))
    /\ present' = present \cup (staging \ staging_excludes)
                          \cup (templates \ templates_excludes)
    /\ pc' = NextStep("sync")
    /\ trace' = Append(trace, Snapshot("sync", tree', present'))
    /\ UNCHANGED <<staging, templates, tpl, run, finals>>

\* owlbot.py:20-32: node.owlbot_main raises, before it copied anything or
\* after it copied the staging directory.  Nothing catches the exception.
SyncFail ==
    /\ pc = "sync"
    /\ \/ UNCHANGED <<tree, present>>
       \/ /\ tree' = AfterStaging(tree)
          /\ present' = present \cup (staging \ staging_excludes)
    /\ pc' = "failed"
    /\ UNCHANGED <<staging, templates, tpl, run, trace, finals>>

\* What s.replace may do when the file it names does not exist.  owlbot.py
\* does not show which: both are kept.
MissingFileOutcomes == {"raise", "skip"}

\* owlbot.py:35-39 and 40-44: s.replace(target, pattern r, replacement r),
\* the statement named step.
Patch(step, r, target) ==
    /\ pc = step
    /\ \/ /\ target \in present
          /\ tree' = [tree EXCEPT ![target] = Replaced(r, @)]
          /\ pc' = NextStep(step)
          /\ trace' = Append(trace, Snapshot(step, tree', present))
       \/ /\ target \notin present
          /\ \E o \in MissingFileOutcomes :
                IF o = "raise"
                THEN pc' = "failed" /\ UNCHANGED <<tree, trace>>
                ELSE /\ pc' = NextStep(step)
                     /\ trace' = Append(trace, Snapshot(step, tree, present))
                     /\ UNCHANGED tree
    /\ UNCHANGED <<present, staging, templates, tpl, run, finals>>

\* owlbot.py:35-39
Patch1 == Patch("patch1", 1, Target1)

\* owlbot.py:40-44
Patch2 == Patch("patch2", 2, Target2)

\* The process is stopped between two statements: the tree stays as it is.
Interrupt ==
    /\ pc \in {"sync", "patch1", "patch2"}
    /\ pc' = "killed"
    /\ UNCHANGED <<tree, present, staging, templates, tpl, run, trace, finals>>

\* The script is started again on the tree the last run left.
Rerun ==
    /\ pc \in {"done", "failed", "killed"}
    /\ run < MaxRuns
    /\ run' = run + 1
    /\ pc' = "sync"
    /\ trace' = <<Snapshot("start", tree, present)>>
    /\ finals' = IF pc = "done" THEN Append(finals, tree[".trampolinerc"]) ELSE finals
    /\ UNCHANGED <<tree, present, staging, templates, tpl>>

Next ==
    \/ Sync
    \/ SyncFail
    \/ Patch1
    \/ Patch2
    \/ Interrupt
    \/ Rerun

Spec == Init /\ [][Next]_vars

\* ---------------------------------------------------------------- helpers

\* The tree when the current run started, and right after its synchronization.
AtStart == trace[1].tree
Synced == Len(trace) >= 2 /\ trace[2].step = "sync"
AfterSync == trace[2].tree

\* The positions where the text lit stands in s.
Occ(s, lit) == {i \in 1..Len(s) : HasLit(s, i, lit)}

\* The snapshots k taken after patch step `step` ran on an existing file.
PatchedAt(step) ==
    {k \in 2..Len(trace) :
        trace[k].step = step /\ ".trampolinerc" \in trace[k - 1].present}

\* .trampolinerc before and after the step of snapshot k.
In(k) == trace[k - 1].tree[".trampolinerc"]
Out(k) == trace[k].tree[".trampolinerc"]

\* ------------------------------------------------------------------ C1, C2

\* The lists as the claims give them.
C1Listed ==
    {".eslintignore", ".prettierignore", "src/index.ts", "README.md",
     "package.json", "system-test/fixtures/sample/src/index.js",
     "system-test/fixtures/sample/src/index.ts"}
C2Listed ==
    {"src/index.ts", ".eslintignore", ".prettierignore", "CONTRIBUTING.md",
     ".github/auto-label.yaml"}

C2_TemplateExcludes ==
    \A p \in C2Listed :
        /\ tree[p] \in {AtStart[p], StagedText}
        /\ tree[p] = TemplateText => AtStart[p] = TemplateText

\* C2's case: a synchronization with every path staged and rendered has run;
\* the templates replaced README.md, and CONTRIBUTING.md holds the staged
\* content, not the template's.
C2_Witness ==
    /\ Synced
    /\ staging = Paths /\ templates = Paths
    /\ tree["README.md"] = TemplateText
    /\ tree["CONTRIBUTING.md"] = StagedText
    /\ tree[".github/auto-label.yaml"] = StagedText

\* ---------------------------------------------------------------------- C3

\* The texts as the claim gives them: required_envvars and required_envvars+=()
C3Name == <<"r","e","q","u","i","r","e","d","_","e","n","v","v","a","r","s">>
C3Empty == C3Name \o <<"+","=","(",")">>

\* A required_envvars declaration stands at i and the first ')' after the
\* name is at j.
ClosedAt(s, i, j) ==
    /\ HasLit(s, i, C3Name)
    /\ j \in (i + Len(C3Name))..Len(s)
    /\ s[j] = ")"
    /\ \A m \in (i + Len(C3Name))..(j - 1) : s[m] # ")"

\* The positions of the declarations of s that a ')' closes.
ClosedDecls(s) == {i \in Occ(s, C3Name) : \E j \in i..Len(s) : ClosedAt(s, i, j)}

\* The first declaration of s that a ')' closes.
FirstDecl(s) == CHOOSE i \in ClosedDecls(s) : \A i2 \in ClosedDecls(s) : i <= i2

\* C3: when the first patch rule has run on content with a required_envvars
\* declaration that a ')' closes, the text before the first such declaration
\* is unchanged, the declaration itself (name, whatever lies between, line
\* breaks included, and the ')') has become required_envvars+=(), followed,
\* when no later declaration is closed, by exactly the text that followed the
\* ')'; and afterwards every required_envvars that a ')' still follows reads
\* required_envvars+=(), so no declaration lists a variable.
C3_RequiredEmptied ==
    \A k \in PatchedAt("patch1") :
        ClosedDecls(In(k)) # {} =>
            LET i == FirstDecl(In(k))
                j == CHOOSE j \in i..Len(In(k)) : ClosedAt(In(k), i, j)
            IN  /\ SubSeq(Out(k), 1, i - 1) = SubSeq(In(k), 1, i - 1)
                /\ HasLit(Out(k), i, C3Empty)
                /\ (\A q \in ClosedDecls(In(k)) : q <= j) =>
                       SubSeq(Out(k), i + Len(C3Empty), Len(Out(k)))
                           = SubSeq(In(k), j + 1, Len(In(k)))
                /\ \A q \in ClosedDecls(Out(k)) : HasLit(Out(k), q, C3Empty)

\* C3's case: the first rule has run on a declaration that spans a line break
\* and lists something, and has changed the file.
C3_Witness ==
    \E k \in PatchedAt("patch1") :
        /\ ClosedDecls(In(k)) # {}
        /\ LET i == FirstDecl(In(k))
               j == CHOOSE j \in i..Len(In(k)) : ClosedAt(In(k), i, j)
           IN  /\ j - i >= Len(C3Name) + 3
               /\ \E m \in i..j : In(k)[m] = "\n"
               /\ \E m \in i..j : In(k)[m] = "X"
        /\ Out(k) # In(k)

\* ---------------------------------------------------------------------- C4

\* The texts as the claim gives them: pass_down_envvars+=( and the two
\* entries, each after a line break and four spaces.
C4Opening ==
    <<"p","a","s","s","_","d","o","w","n","_","e","n","v","v","a","r","s",
      "+","=","(">>
C4Environment ==
    <<"\n"," "," "," "," ","\"","E","N","V","I","R","O","N","M","E","N","T","\"">>
C4Runtime ==
    <<"\n"," "," "," "," ","\"","R","U","N","T","I","M","E","\"">>
C4Entries == C4Environment \o C4Runtime

\* The text at position i of s is on a line of its own: a line break or the
\* end of s follows it (each entry starts with a line break).
EndsLine(s, i, text) ==
    i + Len(text) > Len(s) \/ s[i + Len(text)] = "\n"

\* What the second rule makes of the opening at position i of `before`, read
\* in `after`: the opening, moved right by the entries put in before it; then
\* "ENVIRONMENT" and "RUNTIME"; then the text `before` had between this
\* opening and the next one (or the end), unchanged.
OpeningPatched(before, after, i) ==
    LET occ == Occ(before, C4Opening)
        d == Len(C4Entries) * Cardinality({o \in occ : o < i})
        later == {o \in occ : o > i}
        stop == IF later = {} THEN Len(before) + 1
                ELSE CHOOSE o \in later : \A o2 \in later : o <= o2
        rest == i + Len(C4Opening)
    IN  /\ HasLit(after, i + d, C4Opening)
        /\ HasLit(after, rest + d, C4Entries)
        /\ SubSeq(after, rest + d + Len(C4Entries), stop - 1 + d + Len(C4Entries))
               = SubSeq(before, rest, stop - 1)

\* C4 as stated: after the second patch rule, wherever the two entries follow
\* an opening, each of them is on a line of its own.
C4_Original ==
    \A k \in PatchedAt("patch2") :
        \A i \in Occ(Out(k), C4Opening \o C4Entries) :
            /\ EndsLine(Out(k), i + Len(C4Opening), C4Environment)
            /\ EndsLine(Out(k), i + Len(C4Opening) + Len(C4Environment), C4Runtime)

\* C4 amended: after the second patch rule every pass_down_envvars+=( of the
\* content is followed by "ENVIRONMENT" then "RUNTIME", each after a line
\* break and four spaces, and then by the text that followed the opening
\* before, unchanged and in its order; "ENVIRONMENT" is always on a line of
\* its own, and "RUNTIME" is exactly when the text that followed the opening
\* began with a line break or was empty; the text before the first opening
\* is unchanged.
C4_EntriesInserted ==
    \A k \in PatchedAt("patch2") :
        LET occ == Occ(In(k), C4Opening)
        IN  /\ Len(Out(k)) = Len(In(k)) + Len(C4Entries) * Cardinality(occ)
            /\ \A i \in 1..Len(In(k)) :
                  (\A o \in occ : i < o) => Out(k)[i] = In(k)[i]
            /\ \A i \in occ :
                  LET d == Len(C4Entries) * Cardinality({o \in occ : o < i})
                      rest == i + Len(C4Opening)
                  IN  /\ OpeningPatched(In(k), Out(k), i)
                      /\ EndsLine(Out(k), rest + d, C4Environment)
                      /\ EndsLine(Out(k), rest + d + Len(C4Environment), C4Runtime)
                            <=> (rest > Len(In(k)) \/ In(k)[rest] = "\n")

\* C4's case: the second rule has run on a list that had an entry on the
\* line after its opening, and the entry now follows "RUNTIME".
C4_Witness ==
    \E k \in PatchedAt("patch2") :
        /\ HasLit(In(k), 1, C4Opening \o <<"\n","X">>)
        /\ HasLit(Out(k), 1, C4Opening \o C4Entries \o <<"\n","X">>)

\* ---------------------------------------------------------------------- C5

\* The current run has applied both patch rules to an existing .trampolinerc
\* that was, when the first rule started, the content an earlier run's two
\* rules had left: the two rules have run twice in succession.
PatchedTwice ==
    /\ pc = "done"
    /\ Len(finals) >= 1
    /\ Len(trace) = 4
    /\ 3 \in PatchedAt("patch1") /\ 4 \in PatchedAt("patch2")
    /\ In(3) = finals[Len(finals)]

\* The content the rules left the first time.
Once == finals[Len(finals)]

\* C5 as stated: the two rules run twice leave the content the two rules run
\* once left.
C5_Original ==
    PatchedTwice => tree[".trampolinerc"] = Once

\* C5 amended: the two rules run twice leave the content the two rules run
\* once left exactly when that content holds no pass_down_envvars+=( (the
\* second pattern finds nothing to replace); when it holds one, the second
\* run puts "ENVIRONMENT" and "RUNTIME" in once more and the content grows.
\* The first rule alone changes nothing the second time.
C5_IdempotentUnlessOpening ==
    PatchedTwice =>
        /\ Out(3) = Once
        /\ tree[".trampolinerc"] = Once <=> Occ(Once, C4Opening) = {}
        /\ Len(tree[".trampolinerc"])
              = Len(Once) + Len(C4Entries) * Cardinality(Occ(Once, C4Opening))

\* C5's case: the rules have run twice on a file whose declaration the first
\* rule emptied the first time, and which holds no pass_down_envvars+=(.
C5_Witness ==
    /\ PatchedTwice
    /\ Occ(Once, C3Empty) # {}
    /\ Occ(Once, C4Opening) = {}
    /\ \E m \in 1..Len(Once) : Once[m] = "X"

\* The rules have run twice on a file that holds pass_down_envvars+=(.
C5_WitnessGrows ==
    /\ PatchedTwice
    /\ Occ(Once, C4Opening) # {}
    /\ HasLit(tree[".trampolinerc"], 1, C4Opening \o C4Entries \o C4Entries)

\* ---------------------------------------------------------------------- C6

\* The non-overlapping matches of rule r's pattern in s, each <<first, last>>,
\* stated without scanning: for the second pattern every place its text
\* stands; for the first pattern every closed declaration that does not lie
\* inside an earlier match, that is, that no earlier required_envvars reaches
\* without meeting a ')'.
MatchesOf(r, s) ==
    IF r = 2
    THEN {<<i, i + Len(C4Opening) - 1>> : i \in Occ(s, C4Opening)}
    ELSE {<<i, CHOOSE j \in i..Len(s) : ClosedAt(s, i, j)>> :
            i \in {q \in ClosedDecls(s) :
                    ~ \E q2 \in Occ(s, C3Name) :
                         /\ q2 < q
                         /\ \A m \in (q2 + Len(C3Name))..(q - 1) : s[m] # ")"}}

\* By how much the matches of M, each replaced by a text of length n, move
\* what follows them.
RECURSIVE Moved(_, _)
Moved(M, n) ==
    IF M = {} THEN 0
    ELSE LET x == CHOOSE x \in M : TRUE
         IN  n - (x[2] - x[1] + 1) + Moved(M \ {x}, n)

\* `after` is `before` with each match of rule r replaced by the rule's
\* replacement once, and every character outside the matches kept in place.
SubstitutedAs(r, before, after) ==
    LET M == MatchesOf(r, before)
        n == Len(Replacement(r))
        to(i) == i + Moved({x \in M : x[2] < i}, n)
    IN  /\ Len(after) = Len(before) + Moved(M, n)
        /\ \A i \in 1..Len(before) :
              (\A x \in M : i < x[1] \/ i > x[2]) =>
                  to(i) \in 1..Len(after) /\ after[to(i)] = before[i]
        /\ \A x \in M : HasLit(after, to(x[1]), Replacement(r))

\* C6: each patch rule that has run on an existing .trampolinerc replaced
\* every non-overlapping match of its pattern by its replacement, once per
\* match, and kept every other character; with no match the content is the
\* same; and a run that got past the synchronization has failed only if
\* .trampolinerc does not exist, never because a pattern found no match.
C6_EveryMatchReplaced ==
    /\ \A k \in PatchedAt("patch1") :
          /\ SubstitutedAs(1, In(k), Out(k))
          /\ MatchesOf(1, In(k)) = {} => Out(k) = In(k)
    /\ \A k \in PatchedAt("patch2") :
          /\ SubstitutedAs(2, In(k), Out(k))
          /\ MatchesOf(2, In(k)) = {} => Out(k) = In(k)
    /\ (pc = "failed" /\ Synced) => ".trampolinerc" \notin present

\* C6's case: one run in which the first rule found nothing and went on, and
\* the second rule replaced two matches with text between and after them.
C6_Witness ==
    /\ pc = "done"
    /\ 3 \in PatchedAt("patch1") /\ 4 \in PatchedAt("patch2")
    /\ MatchesOf(1, In(3)) = {} /\ Out(3) = In(3)
    /\ Cardinality(MatchesOf(2, In(4))) = 2
    /\ \E m \in 1..Len(In(4)) : In(4)[m] = "X"

\* ---------------------------------------------------------------------- C7

\* Part of C7: a run whose synchronization failed has completed no step, so
\* no patch rule was applied, and .trampolinerc is as it was when the run
\* started unless staging itself wrote it.  This part holds.
C7_SyncFailureStops ==
    (pc = "failed" /\ ~Synced) =>
        /\ Len(trace) = 1
        /\ tree[".trampolinerc"] \in {AtStart[".trampolinerc"], StagedText}

\* Part of C7: a run that has failed or was stopped takes no further step and
\* retries nothing; all that can follow is a new start of the script, which
\* leaves the tree alone.  This part holds.
C7_NoStepAfterFailure ==
    [][(pc \in {"failed", "killed"}) =>
          (pc' = "sync" /\ run' = run + 1 /\ tree' = tree /\ Len(trace') = 1)]_vars

\* Part of C7: a patch rule that finds no .trampolinerc ends the run.  The
\* script does not decide this: it depends on what s.replace does with a
\* path that matches no file, and the model keeps both outcomes, so this
\* formula is violated by the outcome "skip" and settles nothing.
C7_MissingFileAborts ==
    \A k \in 2..Len(trace) :
        trace[k].step \in {"patch1", "patch2"} =>
            ".trampolinerc" \in trace[k - 1].present

\* ---------------------------------------------------------------------- C8

\* The order of the statements as the claim gives it.
C8Order == <<"sync", "patch1", "patch2">>

\* C8: the steps a run has completed are always the first ones of
\* synchronization, first rule, second rule, in that order and each once; so
\* the second rule has never run without the first.  A run stopped after the
\* first rule and before the second leaves in .trampolinerc the content the
\* first rule wrote: the second rule's entries are not put in by that run.
C8_FixedOrder ==
    /\ Len(Steps) <= Len(C8Order)
    /\ \A k \in 1..Len(Steps) : Steps[k] = C8Order[k]
    /\ (pc = "killed" /\ Len(Steps) = 2) =>
          /\ tree[".trampolinerc"] = trace[3].tree[".trampolinerc"]
          /\ 3 \in PatchedAt("patch1") =>
                /\ SubstitutedAs(1, AfterSync[".trampolinerc"], tree[".trampolinerc"])
                /\ Cardinality(Occ(tree[".trampolinerc"], C4Opening \o C4Entries))
                      <= Cardinality(Occ(AfterSync[".trampolinerc"], C4Opening \o C4Entries))
    /\ pc = "done" => Steps = C8Order
    /\ pc \in {"sync", "patch1", "patch2"} => pc = C8Order[Len(Steps) + 1]

\* C8's case: a run was stopped between the two rules; the first rule has
\* emptied a declaration, and a pass_down_envvars+=( stands without the two
\* entries.
C8_Witness ==
    /\ pc = "killed"
    /\ Steps = <<"sync", "patch1">>
    /\ 3 \in PatchedAt("patch1")
    /\ tree[".trampolinerc"] # AfterSync[".trampolinerc"]
    /\ Occ(tree[".trampolinerc"], C4Opening) # {}
    /\ Occ(tree[".trampolinerc"], C4Opening \o C4Entries) = {}

\* ---------------------------------------------------------------------- C9

\* C9: once the synchronization has run, every path other than .trampolinerc
\* holds, in every later state of the run, the content the synchronization
\* left, and exists exactly if it existed then.
C9_OnlyTrampolinerc ==
    Synced =>
        /\ \A p \in Paths \ {".trampolinerc"} : tree[p] = AfterSync[p]
        /\ present = trace[2].present

\* C9's case: both rules have run and changed .trampolinerc.
C9_Witness ==
    /\ pc = "done"
    /\ 3 \in PatchedAt("patch1") /\ 4 \in PatchedAt("patch2")
    /\ Out(3) # In(3)
    /\ Out(4) # In(4)
    /\ \A p \in Paths \ {".trampolinerc"} : Occ(tree[p], C4Opening) # {}

\* --------------------------------------------------------------------- C10

\* C10: .trampolinerc is in neither exclude list; and when the templates
\* render .trampolinerc, its content at the end of a complete run is its
\* content at the end of every earlier complete run, with "ENVIRONMENT" and
\* "RUNTIME" put in exactly once after each pass_down_envvars+=(.
C10_RunsStable ==
    /\ ".trampolinerc" \notin C1Listed \cup C2Listed
    /\ (pc = "done" /\ ".trampolinerc" \in templates) =>
          /\ \A n \in 1..Len(finals) : finals[n] = tree[".trampolinerc"]
          /\ \A i \in Occ(tree[".trampolinerc"], C4Opening) :
                /\ HasLit(tree[".trampolinerc"], i + Len(C4Opening), C4Entries)
                /\ ~HasLit(tree[".trampolinerc"],
                           i + Len(C4Opening) + Len(C4Entries), C4Entries)

\* C10's case: a later complete run after an earlier complete one, on a
\* template that holds both declarations.
C10_Witness ==
    /\ pc = "done"
    /\ run >= 2
    /\ Len(finals) >= 1
    /\ ".trampolinerc" \in templates
    /\ Occ(tree[".trampolinerc"], C4Opening \o C4Entries) # {}
    /\ Occ(tree[".trampolinerc"], C3Empty) # {}

====
